---- MODULE Spec2Model ----
(***************************************************************************)
(* A model of the HTTP server of src/src/main.rs: the listener loop, the   *)
(* per-connection handler threads, the request decoder, the router and the *)
(* response encoder.  Text is modelled as sequences of bytes (naturals     *)
(* below 256), because Rust's String is a UTF-8 byte buffer: len() counts  *)
(* bytes, and the conversions between bytes and strings can fail or lose   *)
(* information.                                                            *)
(***************************************************************************)
EXTENDS Integers, Sequences, FiniteSets, TLC

(***************************************************************************)
(* Bytes and literals                                                      *)
(***************************************************************************)

\* The printable ASCII characters in code order: codes 32 to 95, and 97 to 126.
AsciiLow == " !\"#$%&'()*+,-./0123456789:;<=>?@ABCDEFGHIJKLMNOPQRSTUVWXYZ[\\]^_"

AsciiHigh == "abcdefghijklmnopqrstuvwxyz{|}~"

\* The position of the one-character string c in the string t, 0 if absent.
IndexIn(t, c) ==
  LET at == {i \in 1..Len(t) : SubSeq(t, i, i) = c}
  IN  IF at = {} THEN 0 ELSE CHOOSE i \in at : TRUE

\* The code of a one-character string.
Ord(c) ==
  IF c = "\r" THEN 13
  ELSE IF c = "\n" THEN 10
  ELSE IF c = "\t" THEN 9
  ELSE IF IndexIn(AsciiLow, c) > 0 THEN 31 + IndexIn(AsciiLow, c)
  ELSE 96 + IndexIn(AsciiHigh, c)

\* The bytes of an ASCII string literal.
B(s) == [i \in 1..Len(s) |-> Ord(SubSeq(s, i, i))]

\* Option<T>.
None == [some |-> FALSE]
Some(x) == [some |-> TRUE, val |-> x]

\* The tail of s from position i on.
Drop(s, i) == SubSeq(s, i, Len(s))

\* str::starts_with.
StartsWith(s, p) == Len(p) <= Len(s) /\ SubSeq(s, 1, Len(p)) = p

\* str::strip_prefix.
StripPrefix(s, p) == IF StartsWith(s, p) THEN Some(Drop(s, Len(p) + 1)) ELSE None

\* str::contains / nom find_substring(..).is_some().
Contains(s, p) == \E i \in 1..(Len(s) - Len(p) + 1) : SubSeq(s, i, i + Len(p) - 1) = p

\* char::is_whitespace, on the ASCII range.
IsWhitespace(b) == b \in {9, 10, 11, 12, 13, 32}

\* str::split_whitespace: the maximal runs of non-whitespace, in order.
RECURSIVE SplitFrom(_, _, _)
SplitFrom(s, i, cur) ==
  IF i > Len(s) THEN (IF cur = <<>> THEN <<>> ELSE <<cur>>)
  ELSE IF IsWhitespace(s[i])
       THEN (IF cur = <<>> THEN <<>> ELSE <<cur>>) \o SplitFrom(s, i + 1, <<>>)
       ELSE SplitFrom(s, i + 1, Append(cur, s[i]))

SplitWhitespace(s) == SplitFrom(s, 1, <<>>)

\* Iterator::nth on a collected sequence (0-based).
Nth(seq, n) == IF n + 1 <= Len(seq) THEN Some(seq[n + 1]) ELSE None

\* str::lines().next(): nothing for the empty string, else the text before the
\* first line feed; a carriage return right before that line feed is dropped.
FirstStrLine(s) ==
  IF s = <<>> THEN None
  ELSE LET nl == {i \in 1..Len(s) : s[i] = 10}
       IN  IF nl = {} THEN Some(s)
           ELSE LET at == CHOOSE i \in nl : \A j \in nl : i <= j
                    line == SubSeq(s, 1, at - 1)
                IN  Some(IF line # <<>> /\ line[Len(line)] = 13
                         THEN SubSeq(line, 1, Len(line) - 1)
                         ELSE line)

\* FromStr for usize: an optional '+', then one or more decimal digits.
RECURSIVE DigitsValue(_)
DigitsValue(d) ==
  IF d = <<>> THEN 0 ELSE 10 * DigitsValue(SubSeq(d, 1, Len(d) - 1)) + (d[Len(d)] - 48)

ParseUsize(tok) ==
  LET d == IF tok # <<>> /\ tok[1] = 43 THEN Drop(tok, 2) ELSE tok
  IN  IF d # <<>> /\ \A i \in 1..Len(d) : d[i] \in 48..57
      THEN Some(DigitsValue(d))
      ELSE None

\* The decimal rendering of a natural, as format!("{}") writes a usize.
RECURSIVE ToDecimal(_)
ToDecimal(n) ==
  IF n < 10 THEN <<48 + n>> ELSE Append(ToDecimal(n \div 10), 48 + (n % 10))

(***************************************************************************)
(* UTF-8: String::from_utf8 (validation) and String::from_utf8_lossy       *)
(***************************************************************************)

\* The byte at position i, 0 past the end.
SafeGet(s, i) == IF i <= Len(s) THEN s[i] ELSE 0

\* A continuation byte, 10xxxxxx.
IsCont(b) == b \in 128..191

\* The bounds of the second byte of a well-formed sequence led by byte b.
SecondOk(b, c) ==
  \/ b \in 194..223 /\ IsCont(c)
  \/ b = 224 /\ c \in 160..191
  \/ b \in 225..236 /\ IsCont(c)
  \/ b = 237 /\ c \in 128..159
  \/ b \in 238..239 /\ IsCont(c)
  \/ b = 240 /\ c \in 144..191
  \/ b \in 241..243 /\ IsCont(c)
  \/ b = 244 /\ c \in 128..143

\* utf8_char_width.
Utf8Width(b) ==
  IF b < 128 THEN 1
  ELSE IF b \in 194..223 THEN 2
  ELSE IF b \in 224..239 THEN 3
  ELSE IF b \in 240..244 THEN 4
  ELSE 0

\* The chunk that starts at position i: a well-formed character (ok) with its
\* length, or a maximal ill-formed prefix (not ok) with its length.
Utf8Chunk(s, i) ==
  LET b == s[i]
      w == Utf8Width(b)
  IN  IF w = 1 THEN [ok |-> TRUE, len |-> 1]
      ELSE IF w = 0 \/ ~SecondOk(b, SafeGet(s, i + 1)) THEN [ok |-> FALSE, len |-> 1]
      ELSE IF w = 2 THEN [ok |-> TRUE, len |-> 2]
      ELSE IF ~IsCont(SafeGet(s, i + 2)) THEN [ok |-> FALSE, len |-> 2]
      ELSE IF w = 3 THEN [ok |-> TRUE, len |-> 3]
      ELSE IF ~IsCont(SafeGet(s, i + 3)) THEN [ok |-> FALSE, len |-> 3]
      ELSE [ok |-> TRUE, len |-> 4]

\* Whether the bytes from position i on are well-formed UTF-8.
RECURSIVE Utf8From(_, _)
Utf8From(s, i) ==
  IF i > Len(s) THEN TRUE
  ELSE LET c == Utf8Chunk(s, i) IN c.ok /\ Utf8From(s, i + c.len)

IsUtf8(s) == Utf8From(s, 1)

\* U+FFFD REPLACEMENT CHARACTER, encoded.
Replacement == <<239, 191, 189>>

\* String::from_utf8_lossy: every maximal ill-formed chunk becomes U+FFFD.
RECURSIVE LossyFrom(_, _)
LossyFrom(s, i) ==
  IF i > Len(s) THEN <<>>
  ELSE LET c == Utf8Chunk(s, i)
       IN  (IF c.ok THEN SubSeq(s, i, i + c.len - 1) ELSE Replacement)
             \o LossyFrom(s, i + c.len)

FromUtf8Lossy(s) == LossyFrom(s, 1)

(***************************************************************************)
(* The response encoder                                                    *)
(***************************************************************************)

GET == B("GET")
POST == B("POST")
USER_AGENT == B("User-Agent:")

\* enum StatusLine.
StatusOk(body, content_type) ==
  [tag |-> "Ok", body |-> body, content_type |-> content_type]
StatusCreated(content_type) == [tag |-> "Created", content_type |-> content_type]
StatusNotFound == [tag |-> "NotFound"]

CRLF == B("\r\n")

\* The literals of the format strings of get_message.
HttpVersion == B("HTTP/1.1 ")
Status200 == B("200 OK")
Status201 == B("201 Created")
Status404 == B("404 Not Found")
ContentTypeHeader == B("Content-Type: ")
ContentLengthHeader == B("Content-Length: ")
TextPlainStr == B("text/plain")
OctetStreamStr == B("application/octet-stream")

\* The match on ContentType in get_message.
ContentTypeStr(content_type) ==
  IF content_type = "TextPlain" THEN TextPlainStr ELSE OctetStreamStr

\* get_message with a Content-Length header on every response, 0 without a body.
get_message_length_always(status_line) ==
  LET body == IF status_line.tag = "Ok" THEN status_line.body ELSE None
      status_code == IF status_line.tag = "Ok" THEN Status200
                     ELSE IF status_line.tag = "Created" THEN Status201
                     ELSE Status404
      payload == IF body.some THEN body.val ELSE <<>>
  IN  HttpVersion \o status_code \o CRLF
        \o ContentLengthHeader \o ToDecimal(Len(payload)) \o CRLF
        \o CRLF \o payload

\* StatusLine::get_message.
get_message(status_line) ==
  IF status_line.tag = "NotFound"
  THEN HttpVersion \o Status404 \o CRLF \o CRLF
  ELSE LET status_code == IF status_line.tag = "Ok" THEN Status200 ELSE Status201
           body == IF status_line.tag = "Ok" THEN status_line.body ELSE None
           content_type_str == ContentTypeStr(status_line.content_type)
       IN  IF body.some
           THEN HttpVersion \o status_code \o CRLF
                  \o ContentTypeHeader \o content_type_str \o CRLF
                  \o ContentLengthHeader \o ToDecimal(Len(body.val)) \o CRLF
                  \o CRLF \o body.val
           ELSE HttpVersion \o status_code \o CRLF
                  \o ContentTypeHeader \o content_type_str \o CRLF \o CRLF

(***************************************************************************)
(* The request decoder                                                     *)
(***************************************************************************)

\* The first position at or after i that holds a line feed, 0 if there is none.
NextLF(s, i) ==
  LET nl == {j \in i..Len(s) : s[j] = 10}
  IN  IF nl = {} THEN 0 ELSE CHOOSE j \in nl : \A k \in nl : j <= k

\* BufRead::lines on one raw line: the line feed is dropped, and a carriage
\* return right before it.
StripEol(raw) ==
  IF raw # <<>> /\ raw[Len(raw)] = 10
  THEN LET l == SubSeq(raw, 1, Len(raw) - 1)
       IN  IF l # <<>> /\ l[Len(l)] = 13 THEN SubSeq(l, 1, Len(l) - 1) ELSE l
  ELSE raw

\* read_request on a stream that holds the bytes s, read from position i on,
\* with the lines acc collected so far.  eof: the client has closed its side.
\* "ok": the lines before the first empty line (or before the end of the
\* stream), and the position of the first byte not consumed.  "panic": a line
\* is not UTF-8 and the unwrap panics.  "block": the line is not complete yet.
RECURSIVE ReadLines(_, _, _, _)
ReadLines(s, eof, i, acc) ==
  IF i > Len(s)
  THEN IF eof THEN [kind |-> "ok", lines |-> acc, pos |-> i]
       ELSE [kind |-> "block"]
  ELSE LET lf == NextLF(s, i)
       IN  IF lf = 0 /\ ~eof THEN [kind |-> "block"]
           ELSE LET end == IF lf = 0 THEN Len(s) ELSE lf
                    raw == SubSeq(s, i, end)
                    line == StripEol(raw)
                IN  IF ~IsUtf8(raw) THEN [kind |-> "panic"]
                    ELSE IF line = <<>>
                    THEN [kind |-> "ok", lines |-> acc, pos |-> end + 1]
                    ELSE ReadLines(s, eof, end + 1, Append(acc, line))

read_request(s, eof) == ReadLines(s, eof, 1, <<>>)

\* The header name find_content_length looks for.
CONTENT_LENGTH == B("Content-Length:")

\* The closure of find_content_length on one header.
ContentLengthOf(header) ==
  IF StartsWith(header, CONTENT_LENGTH)
  THEN LET tok == Nth(SplitWhitespace(header), 1)
       IN  IF tok.some THEN ParseUsize(tok.val) ELSE None
  ELSE None

\* find_content_length: find_map over the headers, 0 when none yields a value.
find_content_length(headers) ==
  LET hits == {i \in 1..Len(headers) : ContentLengthOf(headers[i]).some}
  IN  IF hits = {} THEN 0
      ELSE ContentLengthOf(headers[CHOOSE i \in hits : \A j \in hits : i <= j]).val

\* process_request_body with a read loop that takes the end of the stream for
\* "no bytes yet" and tries again.
process_request_body_retry(s, eof, pos, http_request) ==
  LET content_length == find_content_length(http_request)
  IN  IF Len(s) - pos + 1 >= content_length
      THEN [kind |-> "ok",
            request |-> Append(http_request,
                               FromUtf8Lossy(SubSeq(s, pos, pos + content_length - 1))),
            pos |-> pos + content_length]
      ELSE [kind |-> "block"]

\* process_request_body with a read of what is there in place of read_exact:
\* at the end of the stream the body is the bytes that did arrive.
process_request_body_read_available(s, eof, pos, http_request) ==
  LET content_length == find_content_length(http_request)
  IN  IF Len(s) - pos + 1 >= content_length
      THEN [kind |-> "ok",
            request |-> Append(http_request,
                               FromUtf8Lossy(SubSeq(s, pos, pos + content_length - 1))),
            pos |-> pos + content_length]
      ELSE IF eof
      THEN [kind |-> "ok",
            request |-> Append(http_request, FromUtf8Lossy(SubSeq(s, pos, Len(s)))),
            pos |-> Len(s) + 1]
      ELSE [kind |-> "block"]

\* process_request_body on the bytes s from position pos on: read_exact of
\* content_length bytes, then the lossy body pushed after the lines.
process_request_body(s, eof, pos, http_request) ==
  LET content_length == find_content_length(http_request)
  IN  IF Len(s) - pos + 1 >= content_length
      THEN [kind |-> "ok",
            request |-> Append(http_request,
                               FromUtf8Lossy(SubSeq(s, pos, pos + content_length - 1))),
            pos |-> pos + content_length]
      ELSE IF eof THEN [kind |-> "err"] ELSE [kind |-> "block"]

(***************************************************************************)
(* The router                                                              *)
(***************************************************************************)

\* The literals of the router.
RootPath == B("/")
EchoPrefix == B("/echo/")
FilesPrefix == B("/files/")
UserAgentPath == B("/user-agent")

\* resolve_path.
resolve_path(request) ==
  LET request_header == FirstStrLine(request)
  IN  IF request_header.some THEN Nth(SplitWhitespace(request_header.val), 1) ELSE None

\* handle_user_agent.
handle_user_agent(request_data) ==
  LET hits == {i \in 1..Len(request_data) : Contains(request_data[i], USER_AGENT)}
  IN  IF hits = {} THEN StatusNotFound
      ELSE LET user_agent == request_data[CHOOSE i \in hits : \A j \in hits : i <= j]
           IN  StatusOk(StripPrefix(user_agent, USER_AGENT), "TextPlain")

\* The long and short flag clap derives for Args::directory.
DirectoryFlags == {B("--directory"), B("-d")}

\* Args::parse on the arguments the process was started with: the directory,
\* or nothing when clap rejects them (or prints the help) and exits the process.
ArgsParse(args) ==
  IF Len(args) = 2 /\ args[1] \in DirectoryFlags
  THEN Some(args[2])
  ELSE None

\* PathBuf::join.
PathJoin(directory, file_path) ==
  IF StartsWith(file_path, RootPath) THEN file_path
  ELSE IF directory # <<>> /\ directory[Len(directory)] = 47 THEN directory \o file_path
  ELSE directory \o RootPath \o file_path

\* A path that names a directory, which fs::write and fs::read_to_string refuse.
IsDirPath(path) == path = <<>> \/ path[Len(path)] = 47

\* fs::read_to_string: the contents, if the file exists and is UTF-8.
ReadToString(files, path) ==
  IF path \in DOMAIN files /\ ~IsDirPath(path) /\ IsUtf8(files[path])
  THEN Some(files[path])
  ELSE None

\* fs::write: the file created or replaced.
FsWrite(files, path, contents) ==
  [p \in DOMAIN files \cup {path} |-> IF p = path THEN contents ELSE files[p]]

\* The method handle_file_path dispatches on: the first token of the first element.
request_type(request_data) == Nth(SplitWhitespace(request_data[1]), 0)

\* handle_file_path with a missing file answered as an empty one.
handle_file_path_empty_on_missing(file_path, request_data, args, files) ==
  LET parsed == ArgsParse(args)
  IN  IF ~parsed.some THEN [kind |-> "exit"]
      ELSE LET full_path == PathJoin(parsed.val, file_path)
               method == request_type(request_data)
           IN  IF method = Some(GET)
               THEN LET file_contents == ReadToString(files, full_path)
                    IN  [kind |-> "read", path |-> full_path,
                         status |-> IF file_contents.some
                                    THEN StatusOk(file_contents, "ApplicationOctetStream")
                                    ELSE StatusOk(Some(<<>>), "ApplicationOctetStream")]
               ELSE IF method = Some(POST)
               THEN [kind |-> "write", path |-> full_path,
                     contents |-> request_data[Len(request_data)],
                     status |-> StatusCreated("TextPlain")]
               ELSE [kind |-> "respond", status |-> StatusNotFound]

\* handle_file_path without the dispatch on the method: every request that is
\* not a GET writes its body.
handle_file_path_write_any(file_path, request_data, args, files) ==
  LET parsed == ArgsParse(args)
  IN  IF ~parsed.some THEN [kind |-> "exit"]
      ELSE LET full_path == PathJoin(parsed.val, file_path)
               method == request_type(request_data)
           IN  IF method = Some(POST)
               THEN [kind |-> "write", path |-> full_path,
                     contents |-> request_data[Len(request_data)],
                     status |-> StatusCreated("TextPlain")]
               ELSE [kind |-> "write", path |-> full_path,
                     contents |-> request_data[Len(request_data)],
                     status |-> StatusNotFound]

\* handle_file_path, as the effect it asks for: "exit" (Args::parse ends the
\* process), "respond" with a status line, "read" a file and respond with what
\* was found, or "write" a file and then respond.
handle_file_path(file_path, request_data, args, files) ==
  LET parsed == ArgsParse(args)
  IN  IF ~parsed.some THEN [kind |-> "exit"]
      ELSE LET full_path == PathJoin(parsed.val, file_path)
               method == request_type(request_data)
           IN  IF method = Some(GET)
               THEN LET file_contents == ReadToString(files, full_path)
                    IN  [kind |-> "read", path |-> full_path,
                         status |-> IF file_contents.some
                                    THEN StatusOk(file_contents, "ApplicationOctetStream")
                                    ELSE StatusNotFound]
               ELSE IF method = Some(POST)
               THEN [kind |-> "write", path |-> full_path,
                     contents |-> request_data[Len(request_data)],
                     status |-> StatusCreated("TextPlain")]
               ELSE [kind |-> "respond", status |-> StatusNotFound]

\* The value of a hexadecimal digit, -1 for any other byte.
HexValue(b) ==
  IF b \in 48..57 THEN b - 48
  ELSE IF b \in 65..70 THEN b - 55
  ELSE IF b \in 97..102 THEN b - 87
  ELSE -1

\* Percent-decoding: every %XY with hexadecimal X and Y becomes one byte.
RECURSIVE PercentDecode(_)
PercentDecode(s) ==
  IF s = <<>> THEN <<>>
  ELSE IF /\ s[1] = 37
          /\ Len(s) >= 3
          /\ HexValue(s[2]) >= 0
          /\ HexValue(s[3]) >= 0
       THEN <<16 * HexValue(s[2]) + HexValue(s[3])>> \o PercentDecode(Drop(s, 4))
       ELSE <<s[1]>> \o PercentDecode(Tail(s))

\* path_to_status_line with the echoed string URL-decoded.
path_to_status_line_decoding(path, request_data, args, files) ==
  LET s == StripPrefix(path, EchoPrefix)
      file_path == StripPrefix(path, FilesPrefix)
  IN  IF s.some
      THEN [kind |-> "respond",
            status |-> StatusOk(Some(PercentDecode(s.val)), "TextPlain")]
      ELSE IF file_path.some
      THEN handle_file_path(file_path.val, request_data, args, files)
      ELSE IF Contains(path, UserAgentPath)
      THEN [kind |-> "respond", status |-> handle_user_agent(request_data)]
      ELSE [kind |-> "respond", status |-> StatusNotFound]

\* path_to_status_line with the echo route matched without its last slash.
path_to_status_line_loose_prefix(path, request_data, args, files) ==
  LET s == StripPrefix(path, B("/echo"))
      file_path == StripPrefix(path, FilesPrefix)
  IN  IF s.some
      THEN [kind |-> "respond",
            status |-> StatusOk(StripPrefix(s.val, RootPath), "TextPlain")]
      ELSE IF file_path.some
      THEN handle_file_path(file_path.val, request_data, args, files)
      ELSE IF Contains(path, UserAgentPath)
      THEN [kind |-> "respond", status |-> handle_user_agent(request_data)]
      ELSE [kind |-> "respond", status |-> StatusNotFound]

\* path_to_status_line with the User-Agent route tried first.
path_to_status_line_user_agent_first(path, request_data, args, files) ==
  LET s == StripPrefix(path, EchoPrefix)
      file_path == StripPrefix(path, FilesPrefix)
  IN  IF Contains(path, UserAgentPath)
      THEN [kind |-> "respond", status |-> handle_user_agent(request_data)]
      ELSE IF s.some
      THEN [kind |-> "respond", status |-> StatusOk(Some(s.val), "TextPlain")]
      ELSE IF file_path.some
      THEN handle_file_path(file_path.val, request_data, args, files)
      ELSE [kind |-> "respond", status |-> StatusNotFound]

\* path_to_status_line.
path_to_status_line(path, request_data, args, files) ==
  LET s == StripPrefix(path, EchoPrefix)
      file_path == StripPrefix(path, FilesPrefix)
  IN  IF s.some THEN [kind |-> "respond", status |-> StatusOk(Some(s.val), "TextPlain")]
      ELSE IF file_path.some
      THEN handle_file_path(file_path.val, request_data, args, files)
      ELSE IF Contains(path, UserAgentPath)
      THEN [kind |-> "respond", status |-> handle_user_agent(request_data)]
      ELSE [kind |-> "respond", status |-> StatusNotFound]

\* generate_response.
generate_response(http_request, args, files) ==
  IF Len(http_request) >= 1
  THEN LET path == resolve_path(http_request[1])
       IN  IF path = Some(RootPath)
           THEN [kind |-> "respond", status |-> StatusOk(None, "TextPlain")]
           ELSE IF path.some
           THEN path_to_status_line(path.val, http_request, args, files)
           ELSE [kind |-> "respond", status |-> StatusNotFound]
  ELSE [kind |-> "err"]

(***************************************************************************)
(* The inputs: what clients send, and what the process is started with     *)
(***************************************************************************)

\* The number of connections the listener accepts in a run of the model.
MaxConns == 2

Conns == 1..MaxConns

\* A request as a client writes it: the request line, the header lines, the
\* blank line, the body.
RECURSIVE JoinLines(_)
JoinLines(lines) ==
  IF lines = <<>> THEN <<>> ELSE lines[1] \o CRLF \o JoinLines(Tail(lines))

RequestLine(method, target) == method \o B(" ") \o target \o B(" HTTP/1.1")

Request(method, target, headers, body) ==
  JoinLines(<<RequestLine(method, target)>> \o headers) \o CRLF \o body

\* A GET of the file route, and a POST to it that declares its body's length.
GetFile(name) == Request(GET, B("/files/") \o name, <<>>, <<>>)

PostFile(name, body) ==
  Request(POST, B("/files/") \o name,
          <<B("Content-Length: ") \o ToDecimal(Len(body))>>, body)

\* The command lines: with the served directory, and without it.
ArgsMenu == {<<B("--directory"), B("/srv")>>, <<>>}

\* The files that exist before the server starts: none; a text file; a file
\* that is not UTF-8.
FilesMenu ==
  {<<>>,
   [p \in {B("/srv/a")} |-> B("old")],
   [p \in {B("/srv/a")} |-> <<255, 254>>]}

\* The same for the concurrent specification: none; a text file.
SmallFilesMenu == {<<>>, [p \in {B("/srv/a")} |-> B("old")]}

\* What the clients of the concurrent specification send: an echo request cut
\* before the blank line; a file read; a file write whose body is text, and one
\* whose body is not UTF-8.
Requests ==
  {RequestLine(GET, B("/echo/abc")) \o CRLF,
   GetFile(B("a")),
   PostFile(B("a"), B("hi")),
   PostFile(B("a"), <<255, 97>>)}

\* The longest echoed string the single-connection specification enumerates,
\* in characters.
MaxEchoLen == 2

\* The characters echoed strings are built from: none is `/` or whitespace,
\* one is an escape character, one takes two bytes.
EchoChars == {B("a"), B("%"), B("2"), <<195, 169>>}

RECURSIVE EchoStrings(_)
EchoStrings(n) ==
  IF n = 0 THEN {<<>>}
  ELSE LET shorter == EchoStrings(n - 1)
       IN  shorter \cup {s \o ch : s \in shorter, ch \in EchoChars}

\* Echo strings with ten bytes and more.
LongEchoStrings ==
  {B("0123456789"), B("%20%20%20%20"), B("caf") \o <<195, 169>> \o B("-au-lait")}

Methods == {GET, POST, B("PUT")}

Targets ==
  {B("/"), B("/echo/abc"), B("/echo/"), B("/echo/user-agent"), B("/echo"),
   B("/files/a"), B("/files/b"), B("/files/"), B("/files/user-agent"), B("/files"),
   B("/user-agent"), B("/x/user-agent"), B("/user-agen"), B("/User-Agent"),
   B("/nope"), B("//"), B("nope"), B("/index.html")}

\* Header lines with the body sent after them.
HeadersAndBody ==
  {<<<<>>, <<>>>>,
   <<<<B("Host: localhost:4221"), B("User-Agent: curl/7.81.0")>>, <<>>>>,
   <<<<B("User-Agent: ") \o <<195, 169>>, B("Accept: */*")>>, <<>>>>,
   <<<<B("User-Agent:v")>>, <<>>>>,
   <<<<B("X-User-Agent: v")>>, <<>>>>,
   <<<<B("Content-Length: 2")>>, B("hi")>>,
   <<<<B("Content-Length: 2")>>, <<255, 97>>>>,
   <<<<B("Content-Length: 2")>>, B("h")>>,
   <<<<B("Content-Length: 1")>>, B("hi")>>,
   <<<<B("Content-Length: x"), B("Content-Length: 2")>>, B("hi")>>,
   <<<<B("Content-Length: 13")>>, B("User-Agent: z")>>}

\* Streams that are not a request line, headers, blank line and body: no byte
\* at all; only a blank line; a request cut before the blank line, with and without its last
\* line ending; line feeds alone as line endings; a header that is not UTF-8;
\* a request line of one token; leading whitespace.
OddStreams ==
  {<<>>,
   CRLF,
   RequestLine(GET, B("/")) \o CRLF,
   RequestLine(GET, B("/echo/abc")),
   RequestLine(POST, B("/files/a")) \o CRLF \o B("Content-Length: 2") \o CRLF,
   RequestLine(GET, B("/user-agent")) \o CRLF \o B("User-Agent: v"),
   B("GET /user-agent HTTP/1.1\nUser-Agent: v\n\n"),
   RequestLine(GET, B("/")) \o CRLF \o <<88, 58, 32, 255>> \o CRLF \o CRLF,
   B("GET") \o CRLF \o CRLF,
   B("  GET\t/echo/x  HTTP/1.1") \o CRLF \o CRLF}

\* What the client of the single-connection specification sends.
WireRequests ==
  {Request(m, t, hb[1], hb[2]) : m \in Methods, t \in Targets, hb \in HeadersAndBody}
    \cup {Request(GET, EchoPrefix \o s, <<>>, <<>>) :
            s \in EchoStrings(MaxEchoLen) \cup LongEchoStrings}
    \cup OddStreams \cup Requests

(***************************************************************************)
(* The state                                                               *)
(***************************************************************************)

VARIABLES
  args,      \* the command line of the process
  listener,  \* "running" (in the accept loop) or "exited" (the process is gone)
  files,     \* the file system: path |-> contents
  writer,    \* history: path |-> the connection whose POST wrote the file last
  conn       \* per connection: the socket and the handler thread

vars == <<args, listener, files, writer, conn>>

\* The stages of handle_connection, and how a handler thread can end.
Running ==
  {"setup_streams", "read_request", "process_request_body", "generate_response",
   "send_response"}
Ended == {"returned_ok", "returned_err", "panicked", "killed"}

Idle ==
  [pc |-> "idle", stream |-> <<>>, eof |-> FALSE, pos |-> 1, http_request |-> <<>>,
   response |-> None, out |-> <<>>, read_from |-> 0]

\* The process has bound its listener; no connection has arrived.
Start(files_menu) ==
  /\ args \in ArgsMenu
  /\ listener = "running"
  /\ files \in files_menu
  /\ writer = <<>>
  /\ conn = [c \in Conns |-> Idle]

Init == Start(SmallFilesMenu)

InitWire == Start(FilesMenu)

(***************************************************************************)
(* The listener: run_server                                                *)
(***************************************************************************)

\* listener.incoming() yields a connection and a thread is spawned for it.
\* The client has written `stream`; it may close its side later.
Accept(c, menu) ==
  /\ listener = "running"
  /\ conn[c].pc = "idle"
  /\ \A d \in Conns : d < c => conn[d].pc # "idle"
  /\ \E stream \in menu :
       conn' = [conn EXCEPT ![c] = [Idle EXCEPT !.pc = "setup_streams",
                                                !.stream = stream]]
  /\ UNCHANGED <<args, listener, files, writer>>

\* The handler of c waits for bytes the client has not sent.
Waiting(c) ==
  /\ ~conn[c].eof
  /\ \/ /\ conn[c].pc = "read_request"
        /\ read_request(conn[c].stream, FALSE).kind = "block"
     \/ /\ conn[c].pc = "process_request_body"
        /\ process_request_body(conn[c].stream, FALSE, conn[c].pos,
                                conn[c].http_request).kind = "block"

\* listener.incoming() yields an error: the loop goes on.
AcceptError ==
  /\ listener = "running"
  /\ UNCHANGED vars

\* The client closes its side of the connection: the server reads end of file
\* after the bytes already sent.  Only a read that waits for more bytes can
\* tell a close before it from a close during it, so the close is taken then.
ClientClose(c) ==
  /\ Waiting(c)
  /\ conn' = [conn EXCEPT ![c].eof = TRUE]
  /\ UNCHANGED <<args, listener, files, writer>>

(***************************************************************************)
(* The handler thread: handle_connection                                   *)
(***************************************************************************)

\* setup_streams: both try_clone calls work, or one fails and `?` returns.
SetupStreams(c) ==
  /\ conn[c].pc = "setup_streams"
  /\ \/ conn' = [conn EXCEPT ![c].pc = "read_request"]
     \/ conn' = [conn EXCEPT ![c].pc = "returned_err"]
  /\ UNCHANGED <<args, listener, files, writer>>

\* read_request: the lines are collected, or a line is not UTF-8 and the
\* unwrap panics.  The step waits while the header block is incomplete.
ReadRequest(c) ==
  /\ conn[c].pc = "read_request"
  /\ LET r == read_request(conn[c].stream, conn[c].eof)
     IN  \/ /\ r.kind = "ok"
            /\ conn' = [conn EXCEPT ![c].pc = "process_request_body",
                                     ![c].http_request = r.lines,
                                     ![c].pos = r.pos]
         \/ /\ r.kind = "panic"
            /\ conn' = [conn EXCEPT ![c].pc = "panicked"]
  /\ UNCHANGED <<args, listener, files, writer>>

\* The socket read fails (the connection is reset): the unwrap panics.
ReadError(c) ==
  /\ conn[c].pc = "read_request"
  /\ conn' = [conn EXCEPT ![c].pc = "panicked"]
  /\ UNCHANGED <<args, listener, files, writer>>

\* process_request_body: the body is read and pushed, or read_exact meets the
\* end of the stream and `?` returns.  The step waits while bytes are missing.
ProcessRequestBody(c) ==
  /\ conn[c].pc = "process_request_body"
  /\ LET r == process_request_body(conn[c].stream, conn[c].eof, conn[c].pos,
                                    conn[c].http_request)
     IN  \/ /\ r.kind = "ok"
            /\ conn' = [conn EXCEPT ![c].pc = "generate_response",
                                     ![c].http_request = r.request,
                                     ![c].pos = r.pos]
         \/ /\ r.kind = "err"
            /\ conn' = [conn EXCEPT ![c].pc = "returned_err"]
  /\ UNCHANGED <<args, listener, files, writer>>

\* generate_response, with the effects of the file route: the response is
\* computed, for a GET of the file route from the file as it is now (read_from
\* records whose write that is); or the request is empty and `?` returns; or Args::parse ends the
\* process, and every thread with it; or fs::write works; or it fails and the
\* unwrap panics.
GenerateResponse(c) ==
  /\ conn[c].pc = "generate_response"
  /\ LET r == generate_response(conn[c].http_request, args, files)
     IN  \/ /\ r.kind = "respond"
            /\ conn' = [conn EXCEPT ![c].pc = "send_response",
                                     ![c].response = Some(r.status)]
            /\ UNCHANGED <<listener, files, writer>>
         \/ /\ r.kind = "read"
            /\ conn' = [conn EXCEPT ![c].pc = "send_response",
                                     ![c].response = Some(r.status),
                                     ![c].read_from = IF r.path \in DOMAIN writer
                                                      THEN writer[r.path] ELSE 0]
            /\ UNCHANGED <<listener, files, writer>>
         \/ /\ r.kind = "err"
            /\ conn' = [conn EXCEPT ![c].pc = "returned_err"]
            /\ UNCHANGED <<listener, files, writer>>
         \/ /\ r.kind = "exit"
            /\ listener' = "exited"
            /\ conn' = [d \in Conns |->
                          IF conn[d].pc \in Running
                          THEN [conn[d] EXCEPT !.pc = "killed"]
                          ELSE conn[d]]
            /\ UNCHANGED <<files, writer>>
         \/ /\ r.kind = "write"
            /\ ~IsDirPath(r.path)
            /\ files' = FsWrite(files, r.path, r.contents)
            /\ writer' = FsWrite(writer, r.path, c)
            /\ conn' = [conn EXCEPT ![c].pc = "send_response",
                                     ![c].response = Some(r.status)]
            /\ UNCHANGED listener
         \/ /\ r.kind = "write"
            /\ conn' = [conn EXCEPT ![c].pc = "panicked"]
            /\ UNCHANGED <<listener, files, writer>>
  /\ UNCHANGED args

\* What a failed write can leave on the socket: nothing, or all but the end.
PartialWrites(message) == {<<>>, SubSeq(message, 1, Len(message) - 1)}

\* send_response in a handler that serves the next request of the connection
\* after a response.
SendResponse_keep_alive(c) ==
  /\ conn[c].pc = "send_response"
  /\ LET message == get_message(conn[c].response.val)
     IN  \/ conn' = [conn EXCEPT ![c].pc = "read_request",
                                  ![c].out = conn[c].out \o message]
         \/ \E partial \in PartialWrites(message) :
              conn' = [conn EXCEPT ![c].pc = "returned_err", ![c].out = partial]
  /\ UNCHANGED <<args, listener, files, writer>>

\* send_response: the message is written and flushed and the handler returns
\* Ok; or the write fails after some of the bytes and `?` returns.
SendResponse(c) ==
  /\ conn[c].pc = "send_response"
  /\ LET message == get_message(conn[c].response.val)
     IN  \/ conn' = [conn EXCEPT ![c].pc = "returned_ok", ![c].out = message]
         \/ \E partial \in PartialWrites(message) :
              conn' = [conn EXCEPT ![c].pc = "returned_err", ![c].out = partial]
  /\ UNCHANGED <<args, listener, files, writer>>

Handler(c) ==
  \/ SetupStreams(c)
  \/ ReadRequest(c)
  \/ ReadError(c)
  \/ ProcessRequestBody(c)
  \/ GenerateResponse(c)
  \/ SendResponse(c)

Next ==
  \/ \E c \in Conns : Accept(c, Requests)
  \/ AcceptError
  \/ \E c \in Conns : ClientClose(c)
  \/ \E c \in Conns : Handler(c)

Spec == Init /\ [][Next]_vars

\* One connection, and every request of WireRequests.
NextWire ==
  \/ Accept(1, WireRequests)
  \/ AcceptError
  \/ ClientClose(1)
  \/ Handler(1)

SpecWire == InitWire /\ [][NextWire]_vars

\* The handler of c is in a read that waits for bytes: the step of its stage
\* cannot be taken yet.
Blocked(c) ==
  \/ /\ conn[c].pc = "read_request"
     /\ read_request(conn[c].stream, conn[c].eof).kind = "block"
  \/ /\ conn[c].pc = "process_request_body"
     /\ process_request_body(conn[c].stream, conn[c].eof, conn[c].pos,
                             conn[c].http_request).kind = "block"

\* The handler thread of c has a step to take that waits for nothing.
Runnable(c) == conn[c].pc \in Running /\ ~Blocked(c)

\* The scheduler runs every handler thread that can take a step (weak
\* fairness of Handler(c), with Runnable(c) for its enabling condition, so
\* that no failure of the socket is forced), and every client whose handler
\* waits for bytes it has not sent closes its side in the end (weak fairness
\* of ClientClose(c), which is enabled exactly when Waiting(c)).
Fairness ==
  \A c \in Conns :
    /\ WF_vars(SetupStreams(c))
    /\ WF_vars(SendResponse(c))
    /\ <>[]Runnable(c) => []<><<Handler(c)>>_vars
    /\ <>[]Waiting(c) => []<><<ClientClose(c)>>_vars

FairSpecWire == InitWire /\ [][NextWire]_vars /\ Fairness

\* The socket of c is closed: the handler thread is over, so the stream it
\* owned and both clones are dropped (or the process is gone).
SocketClosed(c) == conn[c].pc \in Ended

(***************************************************************************)
(* Reading a response off the wire, as a client does                       *)
(***************************************************************************)

\* The position of the first CRLF CRLF of msg, 0 if there is none.
HeadEnd(msg) ==
  LET at == {i \in 1..(Len(msg) - 3) : SubSeq(msg, i, i + 3) = CRLF \o CRLF}
  IN  IF at = {} THEN 0 ELSE CHOOSE i \in at : \A j \in at : i <= j

\* The lines of s, which are separated by CRLF.
RECURSIVE SplitCRLF(_)
SplitCRLF(s) ==
  LET at == {i \in 1..(Len(s) - 1) : SubSeq(s, i, i + 1) = CRLF}
  IN  IF at = {} THEN <<s>>
      ELSE LET i == CHOOSE k \in at : \A j \in at : k <= j
           IN  <<SubSeq(s, 1, i - 1)>> \o SplitCRLF(Drop(s, i + 2))

\* The status line and header lines of a complete response.
WireHead(msg) == SplitCRLF(SubSeq(msg, 1, HeadEnd(msg) - 1))

\* The status of a complete response: what follows "HTTP/1.1 ".
WireStatus(msg) == StripPrefix(WireHead(msg)[1], HttpVersion)

\* The value of the header `name`, if the response has that header.
WireHeader(msg, name) ==
  LET head == WireHead(msg)
      hits == {i \in 2..Len(head) : StartsWith(head[i], name \o B(": "))}
  IN  IF hits = {} THEN None
      ELSE StripPrefix(head[CHOOSE i \in hits : TRUE], name \o B(": "))

\* The bytes after the blank line.
WireBody(msg) == Drop(msg, HeadEnd(msg) + 4)

HdrContentType == B("Content-Type")
HdrContentLength == B("Content-Length")

\* The connections whose handler returned Ok: the whole response is on the wire.
Answered == {c \in Conns : conn[c].pc = "returned_ok"}

\* The literals a client compares a response with.
Wire200 == B("200 OK")
Wire404 == B("404 Not Found")
WireTextPlain == B("text/plain")
WireOctetStream == B("application/octet-stream")
BareOk == B("HTTP/1.1 200 OK\r\n\r\n")
BareNotFound == B("HTTP/1.1 404 Not Found\r\n\r\n")

(***************************************************************************)
(* The claims                                                              *)
(***************************************************************************)

\* C1: a connection on which the client sends no byte and then closes gets no
\* response: once its handler has ended, nothing was written to the socket and
\* the handler did not return Ok.
Claim_C1 ==
  \A c \in Conns :
    (conn[c].pc \in Ended /\ conn[c].stream = <<>> /\ conn[c].eof)
      => conn[c].out = <<>> /\ conn[c].pc # "returned_ok"

\* The requests whose target is exactly `/`.
RootRequests ==
  {Request(m, B("/"), hb[1], hb[2]) : m \in Methods, hb \in HeadersAndBody}

\* C2: every answered request whose target is exactly `/` gets exactly the
\* bytes "HTTP/1.1 200 OK\r\n\r\n": no header and no body.
Claim_C2 ==
  \A c \in Answered : conn[c].stream \in RootRequests => conn[c].out = BareOk

\* Requests to /user-agent that carry the header line "User-Agent: v".
UserAgentCases ==
  {[stream |-> Request(m, B("/user-agent"), <<B("Host: localhost:4221"),
                                              B("User-Agent: curl/7.81.0")>>, <<>>),
    v |-> B("curl/7.81.0")] : m \in Methods}
    \cup {[stream |-> Request(m, B("/user-agent"),
                               <<B("User-Agent: ") \o <<195, 169>>, B("Accept: */*")>>,
                               <<>>),
            v |-> <<195, 169>>] : m \in Methods}

\* C3: a request to /user-agent with the header line "User-Agent: v" is answered
\* 200 text/plain with body exactly v and Content-Length the byte length of v.
Claim_C3 ==
  \A c \in Answered : \A u \in UserAgentCases :
    conn[c].stream = u.stream
      => /\ WireStatus(conn[c].out) = Some(Wire200)
         /\ WireHeader(conn[c].out, HdrContentType) = Some(WireTextPlain)
         /\ WireHeader(conn[c].out, HdrContentLength) = Some(ToDecimal(Len(u.v)))
         /\ WireBody(conn[c].out) = u.v

\* C4: no failure while handling a connection ends the accept loop or the
\* process: the listener is running in every state.
Claim_C4 == listener = "running"

\* The stream holds an empty line: its first line is empty, or a line feed is
\* followed by a line feed, with or without a carriage return between them.
HasBlankLine(s) ==
  \/ StartsWith(s, B("\n"))
  \/ StartsWith(s, B("\r\n"))
  \/ Contains(s, B("\n\n"))
  \/ Contains(s, B("\n\r\n"))

\* C5: a stream that ends after at least one line and before any blank line is
\* not decoded into a request: the router never runs on it, no status line is
\* computed for it and no byte is written.
Claim_C5 ==
  \A c \in Conns :
    (conn[c].eof /\ conn[c].stream # <<>> /\ ~HasBlankLine(conn[c].stream))
      => /\ conn[c].pc \notin {"generate_response", "send_response", "returned_ok"}
         /\ ~conn[c].response.some
         /\ conn[c].out = <<>>

\* The bodies written to /files/a.
PostBodies == {B("hi"), <<255, 97>>}

\* C6: when a POST /files/a with body B has been answered 201 and a GET
\* /files/a then reads the file that POST wrote (no other write in between),
\* the GET is answered 200 application/octet-stream with body exactly B.
Claim_C6 ==
  \A p \in Answered, g \in Answered : \A body \in PostBodies :
    (/\ conn[p].stream = PostFile(B("a"), body)
     /\ conn[g].stream = GetFile(B("a"))
     /\ conn[g].read_from = p)
      => /\ WireStatus(conn[g].out) = Some(Wire200)
         /\ WireHeader(conn[g].out, HdrContentType) = Some(WireOctetStream)
         /\ WireBody(conn[g].out) = body

\* GET requests to /echo/s, for the strings s without `/` and whitespace.
EchoCases ==
  {[stream |-> Request(GET, B("/echo/") \o s, hb[1], hb[2]), s |-> s] :
     s \in EchoStrings(MaxEchoLen) \cup LongEchoStrings \cup {B("abc"), B("user-agent")},
     hb \in HeadersAndBody}

\* C7: a GET of /echo/s, s without `/` and whitespace, is answered 200
\* text/plain with body exactly s (not URL-decoded) and a Content-Length equal
\* to the byte length of s.
Thm_C7 ==
  \A c \in Conns : \A e \in EchoCases :
    conn[c].stream = e.stream
      => /\ conn[c].response.some
              => conn[c].response.val = StatusOk(Some(e.s), "TextPlain")
         /\ c \in Answered
              => /\ WireStatus(conn[c].out) = Some(Wire200)
                 /\ WireHeader(conn[c].out, HdrContentType) = Some(WireTextPlain)
                 /\ WireHeader(conn[c].out, HdrContentLength).some
                 /\ ParseUsize(WireHeader(conn[c].out, HdrContentLength).val)
                      = Some(Len(e.s))
                 /\ WireBody(conn[c].out) = e.s

\* An answered echo of a string with an escape and a two-byte character.
Witness_C7 ==
  \E c \in Answered :
    /\ conn[c].stream = Request(GET, B("/echo/%") \o <<195, 169>>, <<>>, <<>>)
    /\ WireBody(conn[c].out) = B("%") \o <<195, 169>>

\* C8: while connections are stalled in their handlers or have failed, the
\* listener is still in its accept loop, able to accept the next connection.
Claim_C8 ==
  (\E c \in Conns : Waiting(c) \/ conn[c].pc \in {"returned_err", "panicked", "killed"})
    => listener = "running" /\ ENABLED AcceptError

\* The body a status line carries.
BodyOf(status_line) == IF status_line.tag = "Ok" THEN status_line.body ELSE None

\* C9: every response on the wire has a Content-Length header exactly when its
\* status line carries a body, the header is the byte length of the body, the
\* body follows the blank line, and a 404 or 201 has neither.
Thm_C9 ==
  \A c \in Answered :
    LET body == BodyOf(conn[c].response.val)
        length == WireHeader(conn[c].out, HdrContentLength)
    IN  /\ length.some <=> body.some
        /\ body.some => /\ ParseUsize(length.val) = Some(Len(body.val))
                         /\ WireBody(conn[c].out) = body.val
        /\ ~body.some => WireBody(conn[c].out) = <<>>
        /\ WireStatus(conn[c].out) # Some(Wire200)
             => ~length.some /\ WireBody(conn[c].out) = <<>>

\* An answered response whose body takes a two-digit Content-Length and holds
\* a character of two bytes.
Witness_C9 ==
  \E c \in Answered :
    /\ BodyOf(conn[c].response.val).some
    /\ Len(BodyOf(conn[c].response.val).val) >= 10
    /\ \E i \in 1..Len(WireBody(conn[c].out)) : WireBody(conn[c].out)[i] >= 128

\* The targets no route matches.
UnroutedTargets ==
  {t \in Targets : /\ t # B("/")
                    /\ ~StartsWith(t, B("/echo/"))
                    /\ ~StartsWith(t, B("/files/"))
                    /\ ~Contains(t, B("/user-agent"))}

UnroutedRequests ==
  {Request(m, t, hb[1], hb[2]) : m \in Methods, t \in UnroutedTargets,
                                 hb \in HeadersAndBody}

\* C10: every answered request whose target is not `/`, does not start with
\* /echo/ or /files/ and does not contain /user-agent gets exactly the bytes
\* "HTTP/1.1 404 Not Found\r\n\r\n".
Thm_C10 ==
  \A c \in Answered :
    conn[c].stream \in UnroutedRequests => conn[c].out = BareNotFound

\* An answered POST to /echo (no trailing slash) that sent a User-Agent header.
Witness_C10 ==
  \E c \in Answered :
    /\ conn[c].stream = Request(POST, B("/echo"), <<B("Host: localhost:4221"),
                                                    B("User-Agent: curl/7.81.0")>>, <<>>)
    /\ conn[c].out = BareNotFound


(***************************************************************************)
(* C11: the file route answers 404 for a missing file and for other methods *)
(***************************************************************************)

\* The names asked for under /files/, and the path each has under /srv.
FileNames == {B("a"), B("b"), B("user-agent")}
ServedPath(name) == B("/srv/") \o name

\* The methods of the menu that are neither GET nor POST.
OtherMethods == Methods \ {GET, POST}

\* The requests of the menu for /files/name: the GETs, by name, and those
\* whose method is neither GET nor POST.
GetFileRequests ==
  [name \in FileNames |->
     {Request(GET, FilesPrefix \o name, hb[1], hb[2]) : hb \in HeadersAndBody}]
OtherMethodFileRequests ==
  UNION {{Request(m, FilesPrefix \o name, hb[1], hb[2]) : hb \in HeadersAndBody} :
           <<m, name>> \in OtherMethods \X FileNames}
MissingFileName == B("b")
PresentFilePath == ServedPath(B("a"))

\* C11: every answer to a GET of /files/name when the served directory holds
\* no file of that name is the bare 404 (no headers, empty body), and so is
\* every answer to a request for /files/name whose method is neither GET nor
\* POST, whether the file exists or not.
Thm_C11 ==
  \A c \in Answered :
    /\ \A name \in FileNames :
         ( /\ conn[c].stream \in GetFileRequests[name]
           /\ ServedPath(name) \notin DOMAIN files )
         => /\ conn[c].out = BareNotFound
            /\ WireBody(conn[c].out) = <<>>
    /\ conn[c].stream \in OtherMethodFileRequests
       => /\ conn[c].out = BareNotFound
          /\ WireBody(conn[c].out) = <<>>

\* A GET of the missing /files/b was answered 404 while /srv/a exists.
Witness_C11 ==
  \E c \in Answered :
    /\ conn[c].stream \in GetFileRequests[MissingFileName]
    /\ PresentFilePath \in DOMAIN files
    /\ conn[c].out = BareNotFound


(***************************************************************************)
(* C12: end of stream inside the declared body                             *)
(***************************************************************************)

\* The requests of the menu whose header block is complete and declares more
\* body bytes than the client sends.
ShortBodies == {hb \in HeadersAndBody : find_content_length(hb[1]) > Len(hb[2])}
ShortBodyRequests ==
  {Request(mt[1], mt[2], hb[1], hb[2]) : mt \in Methods \X Targets, hb \in ShortBodies}
ShortPost == Request(POST, B("/files/a"), <<B("Content-Length: 2")>>, B("h"))

\* C12: a connection whose request declares N body bytes and holds fewer
\* never gets past the reading of the body: no response is computed, no byte
\* is written to the socket and no file is written; and once the client has
\* closed its side the handler is still reading or has returned the error.
Thm_C12 ==
  \A c \in Conns :
    conn[c].stream \in ShortBodyRequests
    => /\ conn[c].pc \notin {"generate_response", "send_response", "returned_ok"}
       /\ conn[c].response = None
       /\ conn[c].out = <<>>
       /\ writer = <<>>
       /\ conn[c].eof => conn[c].pc \in {"process_request_body", "returned_err"}

\* The client closed after one of the two declared bytes of a POST to
\* /files/a, and the handler returned the error.
Witness_C12 ==
  \E c \in Conns :
    /\ conn[c].stream = ShortPost
    /\ conn[c].eof
    /\ conn[c].pc = "returned_err"
    /\ conn[c].out = <<>>


(***************************************************************************)
(* C13, C14: the User-Agent route                                          *)
(***************************************************************************)

\* The targets of the menu that reach the User-Agent route.
UserAgentTargets == {B("/user-agent"), B("/x/user-agent")}

\* The header blocks of the menu, with their bodies, by whether some header
\* line contains "User-Agent:".
WithUserAgentHeader ==
  {hb \in HeadersAndBody : \E i \in 1..Len(hb[1]) : Contains(hb[1][i], USER_AGENT)}
NoUserAgentHeader == HeadersAndBody \ WithUserAgentHeader

NoUserAgentRequests ==
  {Request(mt[1], mt[2], hb[1], hb[2]) :
     mt \in Methods \X UserAgentTargets, hb \in NoUserAgentHeader}
WithUserAgentRequests ==
  {Request(mt[1], mt[2], hb[1], hb[2]) :
     mt \in Methods \X UserAgentTargets, hb \in WithUserAgentHeader}

\* C13: every answered request of the User-Agent route none of whose header
\* lines contains "User-Agent:" gets the bare 404, whatever its request line
\* and its body hold.
Claim_C13 ==
  \A c \in Answered :
    conn[c].stream \in NoUserAgentRequests => conn[c].out = BareNotFound

\* C14: every answered request of the User-Agent route with a header line
\* that contains "User-Agent:" gets a 200 text/plain with a Content-Length
\* header and a body of that length.
Claim_C14 ==
  \A c \in Answered :
    conn[c].stream \in WithUserAgentRequests
    => /\ WireStatus(conn[c].out) = Some(Wire200)
       /\ WireHeader(conn[c].out, HdrContentType) = Some(WireTextPlain)
       /\ WireHeader(conn[c].out, HdrContentLength)
            = Some(ToDecimal(Len(WireBody(conn[c].out))))


(***************************************************************************)
(* C15, C18: the declared length of the body                               *)
(***************************************************************************)

\* The handler of c has read the body and pushed it after the lines.
BodyRead(c) == conn[c].pc \in {"generate_response", "send_response", "returned_ok"}

\* The position of the first byte after the header block of c, where
\* process_request_body starts to read.
BodyStart(c) == read_request(conn[c].stream, TRUE).pos

\* The number of bytes the handler of c has consumed as the body.
BodyConsumed(c) == conn[c].pos - BodyStart(c)

\* The body pushed after the lines of the request of c.
StoredBody(c) == conn[c].http_request[Len(conn[c].http_request)]

\* The lines of the request of c, without the body pushed after them.
LinesOf(c) == SubSeq(conn[c].http_request, 1, Len(conn[c].http_request) - 1)

\* The length the first line that starts with "Content-Length:" declares: the
\* value of its second token, 0 if that token is missing or is no number, and
\* 0 if there is no such line.
FirstContentLength(headers) ==
  LET named == {i \in 1..Len(headers) : StartsWith(headers[i], CONTENT_LENGTH)}
  IN  IF named = {} THEN 0
      ELSE LET v == ContentLengthOf(headers[CHOOSE i \in named : \A j \in named : i <= j])
           IN  IF v.some THEN v.val ELSE 0

\* C15: the number of bytes read as the body is the length declared by the
\* first line that starts with "Content-Length:", which is 0 when its token
\* does not parse, whatever later lines hold.
Claim_C15 ==
  \A c \in Conns :
    BodyRead(c) => BodyConsumed(c) = FirstContentLength(LinesOf(c))


(***************************************************************************)
(* C16: the order of the routes                                            *)
(***************************************************************************)

\* The requests of the menu for a target, with every method, header block
\* and body.
EchoUserAgentRequests ==
  {Request(m, B("/echo/user-agent"), hb[1], hb[2]) : m \in Methods, hb \in HeadersAndBody}
FilesUserAgentRequests ==
  [m \in Methods |->
     {Request(m, B("/files/user-agent"), hb[1], hb[2]) : hb \in HeadersAndBody}]
XUserAgentRequests ==
  {Request(m, B("/x/user-agent"), hb[1], hb[2]) : m \in Methods, hb \in HeadersAndBody}
EchoedBody == B("user-agent")
EchoedUserAgent == StatusOk(Some(EchoedBody), "TextPlain")
RootStatus == StatusOk(None, "TextPlain")
CreatedStatus == StatusCreated("TextPlain")
ServedUserAgent == B("/srv/user-agent")
CurlHeaders == <<B("Host: localhost:4221"), B("User-Agent: curl/7.81.0")>>
EchoUserAgentWithHeader == Request(GET, B("/echo/user-agent"), CurlHeaders, <<>>)

\* C16: the first route that matches decides.  A response computed for `/`
\* is the root response; for /echo/user-agent it echoes "user-agent", with
\* or without a User-Agent header; for /files/user-agent it is the file
\* route (201 and the file /srv/user-agent written for a POST, 404
\* otherwise, no file of that name being served); for /x/user-agent it is
\* what the User-Agent route computes.
Thm_C16 ==
  \A c \in Conns :
    conn[c].response.some
    => LET status == conn[c].response.val
       IN  /\ conn[c].stream \in RootRequests => status = RootStatus
           /\ conn[c].stream \in EchoUserAgentRequests => status = EchoedUserAgent
           /\ conn[c].stream \in FilesUserAgentRequests[POST]
                => /\ status = CreatedStatus
                   /\ ServedUserAgent \in DOMAIN files
                   /\ files[ServedUserAgent] = StoredBody(c)
           /\ \A m \in Methods \ {POST} :
                conn[c].stream \in FilesUserAgentRequests[m] => status = StatusNotFound
           /\ conn[c].stream \in XUserAgentRequests
                => status = handle_user_agent(conn[c].http_request)

\* GET /echo/user-agent with a User-Agent header was answered with the
\* echoed "user-agent".
Witness_C16 ==
  \E c \in Answered :
    /\ conn[c].stream = EchoUserAgentWithHeader
    /\ WireBody(conn[c].out) = EchoedBody


(***************************************************************************)
(* C17: the stages of a connection                                         *)
(***************************************************************************)

\* The stages in their order: not accepted yet, the three steps of reading,
\* parsed (about to be routed), routed (about to be written), closed.
StageRank(pc) ==
  CASE pc = "idle" -> 0
    [] pc = "setup_streams" -> 1
    [] pc = "read_request" -> 2
    [] pc = "process_request_body" -> 3
    [] pc = "generate_response" -> 4
    [] pc = "send_response" -> 5
    [] pc \in Ended -> 6

\* One step, seen from connection c.
StageStep(c) ==
  /\ conn[c].pc \in Ended => conn'[c] = conn[c]
  /\ conn'[c].pc # conn[c].pc
       => \/ conn'[c].pc \in Ended /\ conn[c].pc \in Running
          \/ StageRank(conn'[c].pc) = StageRank(conn[c].pc) + 1
  /\ conn'[c].response # conn[c].response
       => conn[c].pc = "generate_response" /\ conn[c].response = None
  /\ conn'[c].out # conn[c].out
       => /\ conn[c].pc = "send_response"
          /\ conn[c].out = <<>>
          /\ conn'[c].pc \in Ended
          /\ conn[c].http_request # <<>>
          /\ BodyConsumed(c) = find_content_length(LinesOf(c))

\* C17: every step moves a connection to the next stage or ends it, never
\* back and never past a stage; a closed connection does not change; the
\* response is computed once, and bytes are written to the socket in one step
\* only, the last one, after the header block and the whole declared body
\* have been read.
Thm_C17 == [][\A c \in Conns : StageStep(c)]_vars

\* A connection that declared a body of two bytes was answered.
Witness_C17 ==
  \E c \in Answered :
    /\ BodyConsumed(c) = 2
    /\ conn[c].out # <<>>
    /\ conn[c].response # None


\* C18: once the body is read, the handler has consumed exactly the declared
\* number N of bytes after the header block, and the body stored in the
\* request, which a POST to /files/ writes, is N bytes long.
Claim_C18 ==
  \A c \in Conns :
    BodyRead(c)
    => LET N == find_content_length(LinesOf(c))
       IN  /\ BodyConsumed(c) = N
           /\ Len(StoredBody(c)) = N


(***************************************************************************)
(* C19: every handler ends                                                 *)
(***************************************************************************)

\* C19: under fair scheduling, and with clients that close their side when
\* they leave a request incomplete, every handler that was started ends with
\* its socket closed, whichever way it ends: response written, empty
\* request, failed read, failed route, failed write.
Thm_C19 == \A c \in Conns : (conn[c].pc \in Running) ~> SocketClosed(c)

\* A client closed its side before the end of the header block, and the
\* handler ran to its end.
Witness_C19 ==
  \E c \in Conns :
    /\ conn[c].eof
    /\ conn[c].pos = Len(conn[c].stream) + 1
    /\ SocketClosed(c)
    /\ conn[c].pc = "returned_ok"


(***************************************************************************)
(* C20: what changes the file system                                       *)
(***************************************************************************)

\* The method and the target of the request of c, off its request line.
MethodOf(c) == Nth(SplitWhitespace(conn[c].http_request[1]), 0)
TargetOf(c) == Nth(SplitWhitespace(conn[c].http_request[1]), 1)

\* The step is the route action of c, a POST whose target starts with
\* /files/, and changes nothing but the file at the served directory joined
\* with the rest of the target, which now holds the body of the request.
PostWrites(c) ==
  /\ conn[c].pc = "generate_response"
  /\ conn'[c].pc = "send_response"
  /\ MethodOf(c) = Some(POST)
  /\ TargetOf(c).some
  /\ StartsWith(TargetOf(c).val, FilesPrefix)
  /\ Len(args) = 2
  /\ LET path == PathJoin(args[2], Drop(TargetOf(c).val, Len(FilesPrefix) + 1))
     IN  /\ DOMAIN files' = DOMAIN files \cup {path}
         /\ files'[path] = StoredBody(c)
         /\ \A p \in DOMAIN files \ {path} : files'[p] = files[p]

\* C20: every step that changes the file system is the route action of one
\* connection whose request is a POST to /files/..., and changes only the
\* file that request names; the steps of every other connection, and every
\* other step of that one, leave every file as it is.
Thm_C20 == [][files' # files => \E c \in Conns : PostWrites(c)]_vars

GetPresentFile == GetFile(B("a"))

\* A POST has replaced /srv/a while another connection, a GET that read the
\* file before, was answered with the old contents.
Witness_C20 ==
  \E c, d \in Conns :
    /\ PresentFilePath \in DOMAIN writer
    /\ writer[PresentFilePath] = c
    /\ files[PresentFilePath] = StoredBody(c)
    /\ d # c
    /\ conn[d].stream = GetPresentFile
    /\ conn[d].pc = "returned_ok"
    /\ conn[d].read_from = 0
    /\ WireStatus(conn[d].out) = Some(Wire200)

====
